---- MODULE Spec2Model ----
(***************************************************************************)
(* A model of jupyterlab/commands.py: the semver range overlap test        *)
(* (_test_overlap), the per-extension compatibility check                  *)
(* (_validate_compatibility), the staging manifest template                *)
(* (_AppHandler._get_package_template) and the build status check          *)
(* (_AppHandler.build_check).                                              *)
(***************************************************************************)
EXTENDS Integers, Sequences, FiniteSets, TLC

(***************************************************************************)
(* Bounds of the model.                                                    *)
(***************************************************************************)
MaxMajor == 2
MaxMinor == 1
MaxPatch == 1

(***************************************************************************)
(* Versions and the comparison functions imported from .semver             *)
(* (commands.py:28).  A version is <<major, minor, patch>>.                *)
(***************************************************************************)
Versions ==
    {<<a, b, c>> : a \in 0..MaxMajor, b \in 0..MaxMinor, c \in 0..MaxPatch}

compare(a, b) ==
    IF a[1] # b[1] THEN (IF a[1] < b[1] THEN 0 - 1 ELSE 1)
    ELSE IF a[2] # b[2] THEN (IF a[2] < b[2] THEN 0 - 1 ELSE 1)
    ELSE IF a[3] # b[3] THEN (IF a[3] < b[3] THEN 0 - 1 ELSE 1)
    ELSE 0

gt(a, b, loose) == compare(a, b) > 0

gte(a, b, loose) == compare(a, b) >= 0

lt(a, b, loose) == compare(a, b) < 0

lte(a, b, loose) == compare(a, b) <= 0

(***************************************************************************)
(* Version range expressions.  A range expression is a record              *)
(* [kind, v]: "empty" is the empty or unparsable string, "pin" is "1.2.3", *)
(* "caret" is "^1.2.3", and "gt", "gte", "lt", "lte" are the single          *)
(* comparators ">1.2.3", ">=1.2.3", "<1.2.3", "<=1.2.3".                   *)
(***************************************************************************)
RangeKinds == {"pin", "caret", "gt", "gte", "lt", "lte"}

EmptySpec == [kind |-> "empty", v |-> <<0, 0, 0>>]

RangeSpecs == {EmptySpec} \cup [kind : RangeKinds, v : Versions]

Pin(v) == [kind |-> "pin", v |-> v]

Caret(v) == [kind |-> "caret", v |-> v]

\* The excluded upper bound of "^v": the next version that changes the
\* leftmost non-zero component.
CaretUpper(v) ==
    IF v[1] > 0 THEN <<v[1] + 1, 0, 0>>
    ELSE IF v[2] > 0 THEN <<0, v[2] + 1, 0>>
    ELSE <<0, 0, v[3] + 1>>

Comparator(op, v) == [operator |-> op, semver |-> v]

\* Range(spec, True): .range is empty for an empty range, .set[0] is the
\* list of comparators of the first segment.
Range(spec, loose) ==
    LET comps ==
            CASE spec.kind = "empty" -> << >>
              [] spec.kind = "pin"   -> <<Comparator("", spec.v)>>
              [] spec.kind = "caret" ->
                    <<Comparator(">=", spec.v), Comparator("<", CaretUpper(spec.v))>>
              [] spec.kind = "gt"    -> <<Comparator(">", spec.v)>>
              [] spec.kind = "gte"   -> <<Comparator(">=", spec.v)>>
              [] spec.kind = "lt"    -> <<Comparator("<", spec.v)>>
              [] spec.kind = "lte"   -> <<Comparator("<=", spec.v)>>
    IN  [range |-> comps, set |-> <<comps>>]

\* str.startswith on a comparator operator.
startswith(op, c) ==
    CASE c = "<" -> op \in {"<", "<="}
      [] c = ">" -> op \in {">", ">="}
      [] OTHER   -> FALSE

\* A version satisfies a comparator; a version satisfies a range expression
\* when it satisfies every comparator of its segment.
Test(comp, v) ==
    CASE comp.operator = ""   -> compare(v, comp.semver) = 0
      [] comp.operator = ">"  -> gt(v, comp.semver, TRUE)
      [] comp.operator = ">=" -> gte(v, comp.semver, TRUE)
      [] comp.operator = "<"  -> lt(v, comp.semver, TRUE)
      [] comp.operator = "<=" -> lte(v, comp.semver, TRUE)

Satisfies(v, spec) ==
    LET comps == Range(spec, TRUE).set[1]
    IN  \A i \in 1..Len(comps) : Test(comps[i], v)

(***************************************************************************)
(* _test_overlap (commands.py:1140-1187).  The result is "True", "False"   *)
(* or "None" (compatibility cannot be determined).                         *)
(***************************************************************************)
None == "None"

PyBool(b) == IF b THEN "True" ELSE "False"

\* The comparison picked for a bound: lte/lt, gte/gt, or the noop of
\* commands.py:1173.
Cmp(f, a, b) ==
    CASE f = "lte"  -> lte(a, b, TRUE)
      [] f = "lt"   -> lt(a, b, TRUE)
      [] f = "gte"  -> gte(a, b, TRUE)
      [] f = "gt"   -> gt(a, b, TRUE)
      [] f = "noop" -> TRUE

TestOverlapNoLtCheck(spec1, spec2) ==
    LET r1 == Range(spec1, TRUE)
        r2 == Range(spec2, TRUE)
    IN  IF r1.range = << >> \/ r2.range = << >> THEN None
        ELSE
          LET x1 == r1.set[1][1].semver
              x2 == r1.set[1][Len(r1.set[1])].semver
              y1 == r2.set[1][1].semver
              y2 == r2.set[1][Len(r2.set[1])].semver
              o1 == r1.set[1][1].operator
              o2 == r2.set[1][1].operator
              lx == IF x1 = x2 /\ startswith(o1, ">") THEN "noop"
                    ELSE IF x1 = x2 THEN "lte" ELSE "lt"
              ly == IF y1 = y2 /\ startswith(o2, ">") THEN "noop"
                    ELSE IF y1 = y2 THEN "lte" ELSE "lt"
              gx == IF x1 = x2 THEN "gte" ELSE "gt"
              gy == IF x1 = x2 THEN "gte" ELSE "gt"
          IN  PyBool(
                \/ gte(x1, y1, TRUE) /\ Cmp(ly, x1, y2)
                \/ Cmp(gy, x2, y1) /\ Cmp(ly, x2, y2)
                \/ gte(y1, x1, TRUE) /\ Cmp(lx, y1, x2)
                \/ Cmp(gx, y2, x1) /\ Cmp(lx, y2, x2))

TestOverlap(spec1, spec2) ==
    LET r1 == Range(spec1, TRUE)
        r2 == Range(spec2, TRUE)
    IN  \* If either range is empty, we cannot verify.
        IF r1.range = << >> \/ r2.range = << >> THEN None
        ELSE
          LET x1 == r1.set[1][1].semver
              x2 == r1.set[1][Len(r1.set[1])].semver
              y1 == r2.set[1][1].semver
              y2 == r2.set[1][Len(r2.set[1])].semver
              o1 == r1.set[1][1].operator
              o2 == r2.set[1][1].operator
          IN  \* We do not handle (<) specifiers.
              IF startswith(o1, "<") \/ startswith(o2, "<") THEN None
              ELSE
                LET \* Handle single value specifiers, then unbounded (>)
                    \* specifiers.
                    lx == IF x1 = x2 /\ startswith(o1, ">") THEN "noop"
                          ELSE IF x1 = x2 THEN "lte" ELSE "lt"
                    ly == IF y1 = y2 /\ startswith(o2, ">") THEN "noop"
                          ELSE IF y1 = y2 THEN "lte" ELSE "lt"
                    gx == IF x1 = x2 THEN "gte" ELSE "gt"
                    gy == IF x1 = x2 THEN "gte" ELSE "gt"
                IN  PyBool(
                      \/ gte(x1, y1, TRUE) /\ Cmp(ly, x1, y2)
                      \/ Cmp(gy, x2, y1) /\ Cmp(ly, x2, y2)
                      \/ gte(y1, x1, TRUE) /\ Cmp(lx, y1, x2)
                      \/ Cmp(gx, y2, x1) /\ Cmp(lx, y2, x2))

(***************************************************************************)
(* _validate_compatibility (commands.py:1123-1137).  deps and core_deps    *)
(* are maps from package names to range expressions; the result is the     *)
(* list of (package, core range, extension range) conflicts.               *)
(***************************************************************************)
\* The keys of a map in iteration order (the model iterates in the order
\* of Ordered).
Ordered == <<"A", "B", "C", "E", "L", "M", "bar", "core-ext", "core-mime", "foo">>

RECURSIVE KeysFrom(_, _)
KeysFrom(S, i) ==
    IF i > Len(Ordered) THEN << >>
    ELSE (IF Ordered[i] \in S THEN <<Ordered[i]>> ELSE << >>) \o KeysFrom(S, i + 1)

Keys(m) == KeysFrom(DOMAIN m, 1)

RECURSIVE ValidateLoopNotOverlap(_, _, _, _)
ValidateLoopNotOverlap(keys, deps, core_deps, singletons) ==
    IF keys = << >> THEN << >>
    ELSE
      LET key == Head(keys)
          rest == ValidateLoopNotOverlap(Tail(keys), deps, core_deps, singletons)
      IN  IF key \in singletons /\ TestOverlap(core_deps[key], deps[key]) # "True"
          THEN <<(<<key, core_deps[key], deps[key]>>)>> \o rest
          ELSE rest

RECURSIVE ValidateLoop(_, _, _, _)
ValidateLoop(keys, deps, core_deps, singletons) ==
    IF keys = << >> THEN << >>
    ELSE
      LET key == Head(keys)
          rest == ValidateLoop(Tail(keys), deps, core_deps, singletons)
      IN  IF key \in singletons /\ TestOverlap(core_deps[key], deps[key]) = "False"
          THEN <<(<<key, core_deps[key], deps[key]>>)>> \o rest
          ELSE rest

ValidateCompatibilityNotOverlap(deps, core_deps, singletons) ==
    ValidateLoopNotOverlap(Keys(deps), deps, core_deps, singletons)

ValidateCompatibility(deps, core_deps, singletons) ==
    ValidateLoop(Keys(deps), deps, core_deps, singletons)

(***************************************************************************)
(* _is_disabled (commands.py:1190-1198).  Names and patterns are strings;  *)
(* Spelling gives the characters of the strings the model uses.  A pattern *)
(* is a regular expression of literal characters, '.' and '*'.             *)
(***************************************************************************)
MaxPatterns == 2

Spelling(s) ==
    CASE s = "" -> << >>
      [] s = "A" -> <<"A">>
      [] s = "ext" -> <<"e", "x", "t">>
      [] s = "core" -> <<"c", "o", "r", "e">>
      [] s = "core-ext" -> <<"c", "o", "r", "e", "-", "e", "x", "t">>
      [] s = "core-mime" -> <<"c", "o", "r", "e", "-", "m", "i", "m", "e">>
      [] s = ".*ext" -> <<".", "*", "e", "x", "t">>
      [] s = "core-e*" -> <<"c", "o", "r", "e", "-", "e", "*">>

\* The names _is_disabled is asked about and the patterns of a page config.
DisabledNames == {"A", "core", "core-ext", "core-mime"}

DisabledPatterns == {"", "A", "ext", "core", "core-ext", "core-mime", ".*ext", "core-e*"}

\* re.compile(pattern): the items of the pattern, a character (or '.')
\* that may be followed by '*'.
RECURSIVE Compile(_)
Compile(chars) ==
    IF chars = << >> THEN << >>
    ELSE IF Len(chars) >= 2 /\ chars[2] = "*"
         THEN <<[ch |-> chars[1], star |-> TRUE]>> \o Compile(SubSeq(chars, 3, Len(chars)))
         ELSE <<[ch |-> chars[1], star |-> FALSE]>> \o Compile(Tail(chars))

\* Pattern.match(text): whether the items match at the beginning of text.
RECURSIVE MatchHere(_, _)
RECURSIVE MatchStar(_, _, _)
MatchHere(items, text) ==
    IF items = << >> THEN TRUE
    ELSE IF Head(items).star THEN MatchStar(Head(items).ch, Tail(items), text)
    ELSE /\ text # << >>
         /\ Head(items).ch \in {".", Head(text)}
         /\ MatchHere(Tail(items), Tail(text))

MatchStar(ch, items, text) ==
    \/ MatchHere(items, text)
    \/ /\ text # << >>
       /\ ch \in {".", Head(text)}
       /\ MatchStar(ch, items, Tail(text))

\* re.compile(pattern).match(name) is not None.
ReMatch(pattern, name) == MatchHere(Compile(Spelling(pattern)), Spelling(name))

RECURSIVE IsDisabledExactOnly(_, _)
IsDisabledExactOnly(name, disabled) ==
    IF disabled = << >> THEN FALSE
    ELSE IF name = Head(disabled) THEN TRUE
    ELSE IsDisabledExactOnly(name, Tail(disabled))

RECURSIVE IsDisabled(_, _)
IsDisabled(name, disabled) ==
    IF disabled = << >> THEN FALSE
    ELSE IF name = Head(disabled) THEN TRUE
    ELSE IF ReMatch(Head(disabled), name) THEN TRUE
    ELSE IsDisabled(name, Tail(disabled))

(***************************************************************************)
(* Python dicts with string keys.                                          *)
(***************************************************************************)
EmptyMap == << >>

MapSet(m, k, v) == (k :> v) @@ m

MapPop(m, k) == [x \in (DOMAIN m) \ {k} |-> m[x]]

(***************************************************************************)
(* The core manifest template read by _get_core_data                       *)
(* (commands.py:1116-1120) and the packages the model installs.            *)
(***************************************************************************)
CoreVersion == "0.31.0"

OldVersion == "0.30.0"

CoreData ==
    [dependencies |->
        ("foo" :> Caret(<<1, 0, 0>>)) @@ ("bar" :> Caret(<<1, 0, 0>>)) @@
        ("core-ext" :> Caret(<<0, 1, 0>>)) @@ ("core-mime" :> Caret(<<0, 1, 0>>)),
     jupyterlab |->
        [version |-> CoreVersion,
         extensions |-> ("core-ext" :> ""),
         mimeExtensions |-> ("core-mime" :> ""),
         singletonPackages |-> {"foo"},
         linkedPackages |-> EmptyMap]]

\* _get_core_extensions (commands.py:1228-1232).
GetCoreExtensions ==
    Keys(CoreData.jupyterlab.extensions) \o Keys(CoreData.jupyterlab.mimeExtensions)

\* package.json of the packages of the model, as _read_package returns it.
\* A and B are compatible extensions, C requires an upper-bound-only range of
\* the singleton foo, E requires a range of foo disjoint from the core pin.
PackageData(n) ==
    CASE n = "A" ->
            [version |-> "1.0.0",
             dependencies |-> ("foo" :> Caret(<<1, 0, 0>>)),
             jupyterlab |-> [extension |-> "True", mimeExtension |-> "lib/mime"]]
      [] n = "B" ->
            [version |-> "1.0.0",
             dependencies |-> ("bar" :> Caret(<<2, 0, 0>>)),
             jupyterlab |-> [extension |-> "lib/b", mimeExtension |-> "False"]]
      [] n = "C" ->
            [version |-> "1.0.0",
             dependencies |-> ("foo" :> [kind |-> "lt", v |-> <<2, 0, 0>>]),
             jupyterlab |-> [extension |-> "True", mimeExtension |-> "False"]]
      [] n = "E" ->
            [version |-> "1.0.0",
             dependencies |-> ("foo" :> Caret(<<2, 0, 0>>)),
             jupyterlab |-> [extension |-> "False", mimeExtension |-> "True"]]

ExtensionNames == {"A", "B", "C", "E"}

(***************************************************************************)
(* Files.  A tarball is [name, sha]: sha is 0 for a published package and  *)
(* the content hash of the source directory for a packed directory         *)
(* (_extract_package, commands.py:994-1002).  A path is [dir, file].       *)
(***************************************************************************)
Tgz(n, sha) == [name |-> n, sha |-> sha]

\* The empty filename ''.
NoFile == [name |-> "", sha |-> 0]

NameCode(n) == IF n = "" THEN 0 ELSE CHOOSE i \in 1..Len(Ordered) : Ordered[i] = n

DirCode(d) == CASE d = "app" -> 1 [] d = "sys" -> 2 [] d = "linked" -> 3

\* format_path (commands.py:670-675): the 'file:' reference of a path
\* relative to the staging directory.
format_path(path) ==
    [kind |-> "file",
     v |-> <<DirCode(path.dir), NameCode(path.file.name), path.file.sha>>]

\* The tarball _extract_package packs from a source directory whose content
\* hash is sha.
Packed(n, sha) == Tgz(n, sha)

(***************************************************************************)
(* _get_app_info (commands.py:557-590) and what it reads.                  *)
(***************************************************************************)
\* _get_extensions_in_dir (commands.py:776-794).
GetExtensionsInDir(files, location) ==
    [n \in {f.name : f \in files} |->
        LET f == CHOOSE g \in files : g.name = n
        IN  [path |-> [dir |-> location, file |-> f],
             filename |-> f,
             version |-> PackageData(n).version,
             jupyterlab |-> PackageData(n).jupyterlab,
             dependencies |-> PackageData(n).dependencies,
             tar_dir |-> location,
             location |-> location,
             is_local |-> FALSE]]

\* _get_extensions (commands.py:755-774): the application directory's
\* records replace the system directory's.
GetExtensionsSysWins(sysfiles, appfiles) ==
    GetExtensionsInDir(sysfiles, "sys") @@ GetExtensionsInDir(appfiles, "app")

GetExtensions(sysfiles, appfiles) ==
    GetExtensionsInDir(appfiles, "app") @@ GetExtensionsInDir(sysfiles, "sys")

\* _get_local_data (commands.py:925-945): the entries of the build config
\* whose source path exists.
DeadNames(config, key, src) ==
    {n \in DOMAIN config[key] : src[config[key][n]] = 0}

GetLocalData(config, key, src) ==
    [n \in (DOMAIN config[key]) \ DeadNames(config, key, src) |-> config[key][n]]

\* The build config after both _get_local_data calls of _get_app_info.
PrunedConfig(config, src) ==
    [config EXCEPT !.local_extensions = GetLocalData(config, "local_extensions", src),
                   !.linked_packages = GetLocalData(config, "linked_packages", src)]

\* The tarball of package n in staging/linked_packages, '' when there is
\* none.
LinkedFile(tgzs, n) ==
    IF \E f \in tgzs : f.name = n THEN CHOOSE f \in tgzs : f.name = n ELSE NoFile

\* _get_linked_packages (commands.py:811-835).
GetLinkedPackages(config, src, tgzs) ==
    LET data == GetLocalData(config, "linked_packages", src)
    IN  [n \in DOMAIN data |->
            [source |-> data[n],
             filename |-> LinkedFile(tgzs, n),
             path |-> [dir |-> "linked", file |-> LinkedFile(tgzs, n)],
             tar_dir |-> "linked"]]

\* The orphaned tarballs _get_linked_packages removes.
Orphans(config, src, tgzs) ==
    {f \in tgzs : f.name \notin DOMAIN GetLocalData(config, "linked_packages", src)}

\* The core extensions named in the disabled list (commands.py:584-587):
\* key in info['disabled'].
DisabledCore(core_extensions, disabled_list) ==
    SelectSeq(core_extensions,
              LAMBDA key : \E i \in 1..Len(disabled_list) : disabled_list[i] = key)

\* The order in which _get_app_info fills the snapshot
\* (commands.py:562-589); local_extensions and linked_packages are the
\* _get_local_data calls that prune the dead entries and rewrite the build
\* config.
AppInfoSteps ==
    <<"core_data", "extensions", "disabled", "local_extensions", "linked_packages",
      "is_local", "uninstalled_core", "version", "core_extensions", "disabled_core">>

GetAppInfo(sysfiles, appfiles, config, page, src, tgzs) ==
    LET local == GetLocalData(config, "local_extensions", src)
        extensions == GetExtensions(sysfiles, appfiles)
    IN  [exists |-> TRUE,
         core_data |-> CoreData,
         extensions |->
            [n \in DOMAIN extensions |->
                [extensions[n] EXCEPT !.is_local = n \in DOMAIN local]],
         disabled |-> page.disabledExtensions,
         local_extensions |-> local,
         linked_packages |-> GetLinkedPackages(config, src, tgzs),
         app_extensions |-> {n \in DOMAIN extensions : extensions[n].location = "app"},
         sys_extensions |-> {n \in DOMAIN extensions : extensions[n].location # "app"},
         uninstalled_core |-> config.uninstalled_core_extensions,
         version |-> CoreData.jupyterlab.version,
         core_extensions |-> GetCoreExtensions,
         disabled_core |-> DisabledCore(GetCoreExtensions, page.disabledExtensions)]

\* No handler has been constructed.
NoHandler == [exists |-> FALSE]

(***************************************************************************)
(* _get_package_template (commands.py:660-723).  The template is           *)
(* info['core_data'] itself: every assignment below is made on it.  The    *)
(* result is [data, raised, warnings].                                     *)
(***************************************************************************)
\* _get_extension_compat (commands.py:796-804).
GetExtensionCompat(info) ==
    [n \in DOMAIN info.extensions |->
        ValidateCompatibility(info.extensions[n].dependencies,
                              info.core_data.dependencies,
                              info.core_data.jupyterlab.singletonPackages)]

\* The warning logged for an incompatible extension.
CompatWarning(key, errs) == [kind |-> "incompatible", name |-> key, errors |-> errs]

\* jlab[item + 's'][key] = ext for item in ['extension', 'mimeExtension'].
AddEntries(data, key, jlab_data) ==
    LET ext == jlab_data.extension
        mime == jlab_data.mimeExtension
        d1 == IF ext \in {"False", ""} THEN data
              ELSE [data EXCEPT !.jupyterlab.extensions =
                        MapSet(@, key, IF ext = "True" THEN "" ELSE ext)]
    IN  IF mime \in {"False", ""} THEN d1
        ELSE [d1 EXCEPT !.jupyterlab.mimeExtensions =
                  MapSet(@, key, IF mime = "True" THEN "" ELSE mime)]

\* The loop over the extensions (commands.py:679-699).
RECURSIVE ExtensionsLoop(_, _, _, _, _)
ExtensionsLoop(keys, acc, extensions, compat, silent) ==
    IF keys = << >> THEN acc
    ELSE
      LET key == Head(keys)
          value == extensions[key]
          errs == compat[key]
      IN  IF errs # << >>
          THEN \* Reject incompatible extensions with a message.
               ExtensionsLoop(Tail(keys),
                    [acc EXCEPT !.warnings =
                        IF silent THEN @ ELSE @ \cup {CompatWarning(key, errs)}],
                    extensions, compat, silent)
          ELSE LET d1 == [acc.data EXCEPT
                            !.dependencies = MapSet(@, key, format_path(value.path))]
               IN  ExtensionsLoop(Tail(keys),
                        [acc EXCEPT !.data = AddEntries(d1, key, value.jupyterlab)],
                        extensions, compat, silent)

\* The loop over the local extensions (commands.py:704-705).
RECURSIVE LocalLoop(_, _, _)
LocalLoop(keys, data, local) ==
    IF keys = << >> THEN data
    ELSE LocalLoop(Tail(keys),
            [data EXCEPT !.jupyterlab.linkedPackages = MapSet(@, Head(keys), local[Head(keys)])],
            local)

\* The loop over the linked packages (commands.py:708-712).
RECURSIVE LinkedLoop(_, _, _)
LinkedLoop(keys, data, linked) ==
    IF keys = << >> THEN data
    ELSE
      LET key == Head(keys)
          item == linked[key]
          path == [dir |-> "linked", file |-> item.filename]
      IN  LinkedLoop(Tail(keys),
            [data EXCEPT !.dependencies = MapSet(@, key, format_path(path)),
                         !.jupyterlab.linkedPackages = MapSet(@, key, item.source)],
            linked)

\* The loop over the uninstalled core extensions (commands.py:715-721):
\* dict.pop of a missing key raises KeyError and leaves the loop.
RECURSIVE UninstalledLoop(_, _)
UninstalledLoop(items, data) ==
    IF items = << >> THEN [data |-> data, raised |-> FALSE]
    ELSE
      LET item == Head(items)
      IN  IF item \in DOMAIN data.jupyterlab.extensions
          THEN LET d1 == [data EXCEPT !.jupyterlab.extensions = MapPop(@, item)]
               IN  IF item \notin DOMAIN d1.dependencies
                   THEN [data |-> d1, raised |-> TRUE]
                   ELSE UninstalledLoop(Tail(items),
                            [d1 EXCEPT !.dependencies = MapPop(@, item)])
          ELSE IF item \notin DOMAIN data.jupyterlab.mimeExtensions
          THEN [data |-> data, raised |-> TRUE]
          ELSE LET d1 == [data EXCEPT !.jupyterlab.mimeExtensions = MapPop(@, item)]
               IN  IF item \notin DOMAIN d1.dependencies
                   THEN [data |-> d1, raised |-> TRUE]
                   ELSE UninstalledLoop(Tail(items),
                            [d1 EXCEPT !.dependencies = MapPop(@, item)])

\* What _get_package_template returns or raises, and what it logged.
TemplateResult(r, logged) ==
    [data |-> r.data, raised |-> r.raised, warnings |-> logged]

\* _get_package_template after the loop over the extensions
\* (commands.py:701-723).
TemplateFinish(acc, info) ==
    TemplateResult(
        UninstalledLoop(info.uninstalled_core,
            LinkedLoop(Keys(info.linked_packages),
                LocalLoop(Keys(info.local_extensions),
                    [acc.data EXCEPT !.jupyterlab.linkedPackages = EmptyMap],
                    info.local_extensions),
                info.linked_packages)),
        acc.warnings)

\* The body of _get_package_template with the template bound to data.
PackageTemplateOn(data, info, silent) ==
    TemplateFinish(
        ExtensionsLoop(Keys(info.extensions), [data |-> data, warnings |-> {}],
                       info.extensions, GetExtensionCompat(info), silent),
        info)

PackageTemplate(info, silent) == PackageTemplateOn(info.core_data, info, silent)

(***************************************************************************)
(* _populate_staging (commands.py:592-658) and _update_local               *)
(* (commands.py:733-753).                                                  *)
(***************************************************************************)
\* _update_local on the directory holding files: data is the extension
\* record or linked package item, sha the content hash of its source
\* (0: the source is missing and npm pack fails).
UpdateLocal(files, data, name, sha) ==
    LET existing == data.filename
        packed == Packed(name, sha)
    IN  IF sha = 0 THEN [files |-> files, data |-> data, raised |-> TRUE]
        ELSE IF packed = existing
        THEN \* Bail if the file content has not changed.
             [files |-> files, data |-> data, raised |-> FALSE]
        ELSE LET moved == files \cup {packed}
             IN  IF existing # NoFile /\ existing \notin moved
                 THEN \* os.remove of a file that is not there.
                      [files |-> moved, data |-> data, raised |-> TRUE]
                 ELSE [files |-> moved \ {existing},
                       data |-> [data EXCEPT
                                    !.filename = packed,
                                    !.path = [dir |-> data.tar_dir, file |-> packed]],
                       raised |-> FALSE]

\* The loop over the local extensions (commands.py:635-638); st is
\* [files, items, raised] with items the extension records.
RECURSIVE UpdateLocalExtensions(_, _, _, _)
UpdateLocalExtensions(keys, st, local, src) ==
    IF keys = << >> \/ st.raised THEN st
    ELSE
      LET key == Head(keys)
      IN  IF key \notin DOMAIN st.items
          THEN [st EXCEPT !.raised = TRUE]
          ELSE
            LET item == st.items[key]
                u == UpdateLocal(st.files, item, key, src[local[key]])
            IN  UpdateLocalExtensions(Tail(keys),
                    [files |-> u.files,
                     items |-> [st.items EXCEPT ![key] = u.data],
                     raised |-> u.raised],
                    local, src)

\* The loop over the linked packages (commands.py:641-645).
RECURSIVE UpdateLinkedPackages(_, _, _)
UpdateLinkedPackages(keys, st, src) ==
    IF keys = << >> \/ st.raised THEN st
    ELSE
      LET key == Head(keys)
          item == st.items[key]
          u == UpdateLocal(st.files, item, key, src[item.source])
      IN  UpdateLinkedPackages(Tail(keys),
                [files |-> u.files,
                 items |-> [st.items EXCEPT ![key] = u.data],
                 raised |-> u.raised],
                src)

\* _populate_staging with its default arguments: the result is the files of
\* the app extensions directory and of staging/linked_packages, the session
\* snapshot, and the template written to staging/package.json.
PopulateDone(inf1, loc, lnk, tpl) ==
    [app |-> loc.files, linked |-> lnk.files,
     info |-> [inf1 EXCEPT !.core_data = tpl.data],
     raised |-> tpl.raised, data |-> tpl.data, warnings |-> tpl.warnings]

\* Then get the package template (commands.py:648).
PopulateTemplate(inf1, loc, lnk) ==
    IF lnk.raised
    THEN [app |-> loc.files, linked |-> lnk.files, info |-> inf1,
          raised |-> TRUE, data |-> inf1.core_data, warnings |-> {}]
    ELSE PopulateDone(inf1, loc, lnk, PackageTemplate(inf1, FALSE))

PopulateUpdated(inf, loc, lnk) ==
    PopulateTemplate(
        [inf EXCEPT !.extensions = loc.items, !.linked_packages = lnk.items],
        loc, lnk)

\* Update the linked packages (commands.py:641-645) in the linked packages
\* directory, which was emptied first (commands.py:627-630).
PopulateLinked(inf, loc, src) ==
    PopulateUpdated(inf, loc,
        IF loc.raised
        THEN [files |-> {}, items |-> inf.linked_packages, raised |-> TRUE]
        ELSE UpdateLinkedPackages(Keys(inf.linked_packages),
                [files |-> {}, items |-> inf.linked_packages, raised |-> FALSE],
                src))

PopulateStaging(inf, appfiles, src) ==
    PopulateLinked(inf,
        UpdateLocalExtensions(Keys(inf.local_extensions),
            [files |-> appfiles, items |-> inf.extensions, raised |-> FALSE],
            inf.local_extensions, src),
        src)

(***************************************************************************)
(* build_check (commands.py:385-456) and _check_local                      *)
(* (commands.py:725-731).                                                  *)
(***************************************************************************)
Msg(kind, name) ==
    [kind |-> kind, name |-> name, old |-> EmptySpec, new |-> EmptySpec]

ChangedMsg(pkg, old, new) ==
    [kind |-> "changed", name |-> pkg, old |-> old, new |-> new]

\* '%s needs to be included' for the names of new missing from old, in the
\* iteration order of new (commands.py:420-422); '%s needs to be removed'
\* likewise (commands.py:425-427).
RECURSIVE MissingFrom(_, _, _)
MissingFrom(keys, other, kind) ==
    IF keys = << >> THEN << >>
    ELSE (IF Head(keys) \notin DOMAIN other THEN <<Msg(kind, Head(keys))>> ELSE << >>)
            \o MissingFrom(Tail(keys), other, kind)

ExtensionMessagesRemovedFirst(old_jlab, new_jlab, ext_type) ==
    MissingFrom(Keys(old_jlab[ext_type]), new_jlab[ext_type], "remove")
        \o MissingFrom(Keys(new_jlab[ext_type]), old_jlab[ext_type], "include")

ExtensionMessages(old_jlab, new_jlab, ext_type) ==
    \* Extensions that were added, then extensions that were removed.
    MissingFrom(Keys(new_jlab[ext_type]), old_jlab[ext_type], "include")
        \o MissingFrom(Keys(old_jlab[ext_type]), new_jlab[ext_type], "remove")

RECURSIVE DependencyMessagesNoSkip(_, _, _, _, _)
DependencyMessagesNoSkip(keys, new_deps, old_deps, local, linked) ==
    IF keys = << >> THEN << >>
    ELSE
      LET pkg == Head(keys)
          rest == DependencyMessagesNoSkip(Tail(keys), new_deps, old_deps, local, linked)
      IN  IF pkg \notin DOMAIN old_deps THEN rest
          ELSE IF old_deps[pkg] # new_deps[pkg]
               THEN <<ChangedMsg(pkg, old_deps[pkg], new_deps[pkg])>> \o rest
               ELSE rest

\* The loop over the dependencies (commands.py:430-438).
RECURSIVE DependencyMessages(_, _, _, _, _)
DependencyMessages(keys, new_deps, old_deps, local, linked) ==
    IF keys = << >> THEN << >>
    ELSE
      LET pkg == Head(keys)
          rest == DependencyMessages(Tail(keys), new_deps, old_deps, local, linked)
      IN  IF pkg \notin DOMAIN old_deps THEN rest
          ELSE IF pkg \in DOMAIN local \/ pkg \in DOMAIN linked THEN rest
          ELSE IF old_deps[pkg] # new_deps[pkg]
               THEN <<ChangedMsg(pkg, old_deps[pkg], new_deps[pkg])>> \o rest
               ELSE rest

CheckLocalByName(name, sha, files) == \A f \in files : f.name # name

\* _check_local: whether the tarball packed from the source is missing from
\* the directory holding files.
CheckLocal(name, sha, files) == Packed(name, sha) \notin files

\* The loops over the local extensions and the linked packages
\* (commands.py:441-454); source(key) is the source path of key.  The
\* result is [messages, raised, extracted]: npm pack of a missing source
\* raises, and extracted holds the names whose source was packed.
RECURSIVE ContentMessages(_, _, _, _, _)
ContentMessages(keys, sourceOf, src, files, fast) ==
    IF keys = << >> THEN [messages |-> << >>, raised |-> FALSE, extracted |-> {}]
    ELSE
      LET name == Head(keys)
          sha == src[sourceOf[name]]
          rest == ContentMessages(Tail(keys), sourceOf, src, files, fast)
      IN  IF fast THEN rest
          ELSE IF sha = 0
               THEN [messages |-> << >>, raised |-> TRUE, extracted |-> {name}]
          ELSE IF CheckLocal(name, sha, files)
               THEN [rest EXCEPT !.messages = <<Msg("content", name)>> \o @,
                                 !.extracted = @ \cup {name}]
               ELSE [rest EXCEPT !.extracted = @ \cup {name}]

\* The reasons of build_check (commands.py:413-456) given the template tpl
\* that _get_package_template returned.
BuildCheckMessagesDepsFirst(exts, deps, loc, lnk, tpl) ==
    [messages |-> deps \o loc.messages \o exts \o lnk.messages,
     raised |-> loc.raised \/ lnk.raised,
     extracted |-> loc.extracted \cup (IF loc.raised THEN {} ELSE lnk.extracted),
     data |-> tpl.data, warnings |-> tpl.warnings]

BuildCheckMessages(exts, deps, loc, lnk, tpl) ==
    [messages |-> exts \o deps \o loc.messages \o lnk.messages,
     raised |-> loc.raised \/ lnk.raised,
     extracted |-> loc.extracted \cup (IF loc.raised THEN {} ELSE lnk.extracted),
     data |-> tpl.data, warnings |-> tpl.warnings]

BuildCheckCompare(inf, static_data, appfiles, linkedfiles, src, fast, tpl) ==
    IF tpl.raised
    THEN [messages |-> << >>, raised |-> TRUE, extracted |-> {},
          data |-> tpl.data, warnings |-> tpl.warnings]
    ELSE BuildCheckMessages(
            ExtensionMessages(static_data.jupyterlab, tpl.data.jupyterlab, "extensions")
                \o ExtensionMessages(static_data.jupyterlab, tpl.data.jupyterlab,
                                     "mimeExtensions"),
            DependencyMessages(Keys(tpl.data.dependencies), tpl.data.dependencies,
                               static_data.dependencies,
                               inf.local_extensions, inf.linked_packages),
            ContentMessages(Keys(inf.local_extensions), inf.local_extensions,
                            src, appfiles, fast),
            ContentMessages(Keys(inf.linked_packages),
                            [n \in DOMAIN inf.linked_packages |->
                                inf.linked_packages[n].source],
                            src, linkedfiles, fast),
            tpl)

\* build_check once the built application's package.json is read; the result
\* is [messages, raised, data, warnings] with data the session's core data
\* after the call.
BuildCheckBody(inf, static_data, appfiles, linkedfiles, src, fast) ==
    LET old_jlab == static_data.jupyterlab
        \* Look for mismatched version.
        static_version == old_jlab.version
        core_version == old_jlab.version
    IN  IF static_version # core_version
        THEN [messages |-> <<[kind |-> "version", name |-> "",
                              old |-> static_version, new |-> core_version]>>,
              raised |-> FALSE, extracted |-> {},
              data |-> inf.core_data, warnings |-> {}]
        ELSE BuildCheckCompare(inf, static_data, appfiles, linkedfiles, src, fast,
                               PackageTemplate(inf, fast))

(***************************************************************************)
(* install_extension (commands.py:265-303), _install_extension             *)
(* (commands.py:947-977) and uninstall_extension (commands.py:458-490).    *)
(***************************************************************************)
\* The name in the package.json of a source directory.
SourceName(source) == IF source = "srcB" THEN "B" ELSE "L"

\* _extract_package (commands.py:979-1006): a source directory is packed
\* under its content hash, anything else is fetched as a published package;
\* npm pack of a missing directory fails.
ExtractPackage(source, src) ==
    IF source \in DOMAIN src
    THEN [raised |-> src[source] = 0, is_dir |-> TRUE, source |-> source,
          name |-> SourceName(source),
          file |-> Packed(SourceName(source), src[source])]
    ELSE [raised |-> FALSE, is_dir |-> FALSE, source |-> source,
          name |-> source, file |-> Tgz(source, 0)]

\* _validate_extension (commands.py:1044-1094) on the packages of the
\* model, whose modules are all in their tarballs: the linked package L
\* has no jupyterlab key.
ValidateExtension(n) ==
    IF n \notin ExtensionNames THEN <<"No jupyterlab key">>
    ELSE LET jlab == PackageData(n).jupyterlab
         IN  (IF jlab.extension = "False" /\ jlab.mimeExtension = "False"
              THEN <<"No extension or mimeExtension key present">> ELSE << >>)
             \o (IF jlab.extension = jlab.mimeExtension
                 THEN <<"mimeExtension and extension must point to different modules">>
                 ELSE << >>)

ListRemoveNothing(list, x) == list

\* list.remove(x): the first occurrence is removed.
RECURSIVE ListRemove(_, _)
ListRemove(list, x) ==
    IF list = << >> THEN << >>
    ELSE IF Head(list) = x THEN Tail(list)
    ELSE <<Head(list)>> \o ListRemove(Tail(list), x)

InList(list, x) == \E i \in 1..Len(list) : list[i] = x

\* Remove an existing extension with the same name and different path
\* (commands.py:298-303); extensions is the catalog of the session snapshot.
InstallRemoveOther(extensions, pkg, appfiles, config) ==
    IF /\ pkg.name \in DOMAIN extensions
       /\ extensions[pkg.name].path # [dir |-> "app", file |-> pkg.file]
       /\ extensions[pkg.name].location = "app"
    THEN IF extensions[pkg.name].path.file \in appfiles
         THEN [app |-> appfiles \ {extensions[pkg.name].path.file},
               config |-> config, raised |-> FALSE]
         ELSE \* os.remove of a file that is not there.
              [app |-> appfiles, config |-> config, raised |-> TRUE]
    ELSE [app |-> appfiles, config |-> config, raised |-> FALSE]

\* _install_extension and what follows it (commands.py:283-303).
InstallPackage(inf, pkg, appfiles, config) ==
    IF pkg.raised \/ ValidateExtension(pkg.name) # << >>
    THEN [app |-> appfiles, config |-> config, raised |-> TRUE]
    ELSE IF ValidateCompatibility(PackageData(pkg.name).dependencies,
                                  CoreData.dependencies,
                                  CoreData.jupyterlab.singletonPackages) # << >>
    THEN \* Verify package compatibility.
         [app |-> appfiles, config |-> config, raised |-> TRUE]
    ELSE InstallRemoveOther(inf.extensions, pkg, appfiles \cup {pkg.file},
            IF pkg.is_dir
            THEN [config EXCEPT !.local_extensions = MapSet(@, pkg.name, pkg.source)]
            ELSE config)

\* install_extension: the result is the application's extensions directory
\* and the build config on disk after the call.
InstallExtensionBody(inf, extension, appfiles, config, src) ==
    IF InList(inf.core_extensions, extension)
    THEN \* Check for a core extensions.
         [app |-> appfiles,
          config |-> IF InList(config.uninstalled_core_extensions, extension)
                     THEN [config EXCEPT !.uninstalled_core_extensions =
                                ListRemove(@, extension)]
                     ELSE config,
          raised |-> FALSE]
    ELSE InstallPackage(inf, ExtractPackage(extension, src), appfiles, config)

\* uninstall_extension of an extension of the catalog (commands.py:473-487).
UninstallFound(inf, name, appfiles, sysfiles, config) ==
    LET data == inf.extensions[name]
        files == IF data.path.dir = "app" THEN appfiles ELSE sysfiles
    IN  IF data.path.file \notin files
        THEN \* os.remove of a file that is not there.
             [app |-> appfiles, sys |-> sysfiles, config |-> config,
              raised |-> TRUE, value |-> "None"]
        ELSE IF name \in DOMAIN inf.local_extensions
                /\ name \notin DOMAIN config.local_extensions
        THEN \* del data[extname] of a key that is not there.
             [app |-> appfiles \ {data.path.file},
              sys |-> IF data.path.dir = "app" THEN sysfiles
                      ELSE sysfiles \ {data.path.file},
              config |-> config, raised |-> TRUE, value |-> "None"]
        ELSE [app |-> IF data.path.dir = "app" THEN appfiles \ {data.path.file}
                      ELSE appfiles,
              sys |-> IF data.path.dir = "app" THEN sysfiles
                      ELSE sysfiles \ {data.path.file},
              config |-> IF name \in DOMAIN inf.local_extensions
                         THEN [config EXCEPT !.local_extensions = MapPop(@, name)]
                         ELSE config,
              raised |-> FALSE, value |-> "True"]

UninstallExtensionBody(inf, name, appfiles, sysfiles, config) ==
    IF InList(inf.core_extensions, name)
    THEN \* Allow for uninstalled core extensions.
         [app |-> appfiles, sys |-> sysfiles,
          config |-> IF ~InList(config.uninstalled_core_extensions, name)
                     THEN [config EXCEPT !.uninstalled_core_extensions =
                                Append(@, name)]
                     ELSE config,
          raised |-> FALSE, value |-> "True"]
    ELSE IF name \in DOMAIN inf.extensions
    THEN UninstallFound(inf, name, appfiles, sysfiles, config)
    ELSE [app |-> appfiles, sys |-> sysfiles, config |-> config,
          raised |-> FALSE, value |-> "False"]

\* The warnings of _list_extensions (commands.py:855-887) for both
\* locations.
ListWarnings(inf) ==
    {CompatWarning(n, GetExtensionCompat(inf)[n]) :
        n \in {m \in inf.app_extensions \cup inf.sys_extensions :
                    GetExtensionCompat(inf)[m] # << >>}}

(***************************************************************************)
(* State.  spec1 .. pc are the arguments and results of the pure           *)
(* functions; the rest is the application directory on disk and one        *)
(* _AppHandler session.                                                    *)
(***************************************************************************)
VARIABLES
    spec1, spec2,       \* the arguments of _test_overlap
    deps,               \* the extension's dependencies
    singletonPackages,  \* core_data['jupyterlab']['singletonPackages']
    overlap,            \* the result of _test_overlap
    errors,             \* the result of _validate_compatibility
    pc,
    dname, disabled,    \* the arguments of _is_disabled
    is_disabled,        \* the result of _is_disabled
    sys_exts,           \* the tarballs of <sys_dir>/extensions
    app_exts,           \* the tarballs of <app_dir>/extensions
    linked_tgz,         \* the tarballs of <app_dir>/staging/linked_packages
    build_config,       \* <app_dir>/settings/build_config.json
    page_config,        \* <app_dir>/settings/page_config.json
    sources,            \* content hash of each source directory, 0: missing
    static,             \* <app_dir>/static/package.json
    info,               \* the handler's self.info
    result,             \* the outcome of the last call on the handler
    warnings,           \* what the last call logged with logger.warn
    extracted,          \* the names build_check last packed in _check_local
    built               \* static was written by build and nothing changed since

ovars == <<spec1, spec2, deps, singletonPackages, overlap, errors, pc,
           dname, disabled, is_disabled>>

hvars == <<sys_exts, app_exts, linked_tgz, build_config, page_config, sources,
           static, info, result, warnings, extracted, built>>

vars == <<ovars, hvars>>

NoStatic == [exists |-> FALSE]

NoResult ==
    [op |-> "none", arg |-> FALSE, name |-> "", status |-> "ok", value |-> << >>]

EmptyConfig ==
    [uninstalled_core_extensions |-> << >>,
     local_extensions |-> EmptyMap,
     linked_packages |-> EmptyMap]

EmptyPageConfig == [disabledExtensions |-> << >>]

(***************************************************************************)
(* The overlap test and the compatibility check as pure functions: the     *)
(* inputs are drawn in the initial state and the calls are applied.        *)
(***************************************************************************)
\* The core pin and the extension's requirement of a second package.
BarPin == Caret(<<1, 0, 0>>)

BarDep == Caret(<<2, 0, 0>>)

CoreDeps(s1) == [p \in {"foo", "bar"} |-> IF p = "foo" THEN s1 ELSE BarPin]

DepsOf(s2, withBar) ==
    [p \in (IF withBar THEN {"foo", "bar"} ELSE {"foo"}) |->
        IF p = "foo" THEN s2 ELSE BarDep]

\* No application directory is involved.
HandlerIdle ==
    /\ sys_exts = {}
    /\ app_exts = {}
    /\ linked_tgz = {}
    /\ build_config = EmptyConfig
    /\ page_config = EmptyPageConfig
    /\ sources = [s \in {"srcB", "srcL"} |-> 1]
    /\ static = NoStatic
    /\ info = NoHandler
    /\ result = NoResult
    /\ warnings = {}
    /\ extracted = {}
    /\ built = FALSE

\* _is_disabled is not involved.
DisabledIdle ==
    /\ dname = ""
    /\ disabled = << >>
    /\ is_disabled = FALSE

OverlapInit ==
    /\ spec1 \in RangeSpecs
    /\ spec2 \in RangeSpecs
    /\ \E withBar \in BOOLEAN : deps = DepsOf(spec2, withBar)
    /\ singletonPackages \in {{}, {"foo"}, {"foo", "bar"}}
    /\ overlap = "pending"
    /\ errors = << >>
    /\ pc = "start"
    /\ DisabledIdle
    /\ HandlerIdle

TestOverlapCall ==
    /\ pc = "start"
    /\ overlap' = TestOverlap(spec1, spec2)
    /\ pc' = "overlap"
    /\ UNCHANGED <<spec1, spec2, deps, singletonPackages, errors,
                   dname, disabled, is_disabled, hvars>>

ValidateCompatibilityCall ==
    /\ pc = "overlap"
    /\ errors' = ValidateCompatibility(deps, CoreDeps(spec1), singletonPackages)
    /\ pc' = "validated"
    /\ UNCHANGED <<spec1, spec2, deps, singletonPackages, overlap,
                   dname, disabled, is_disabled, hvars>>

OverlapNext == TestOverlapCall \/ ValidateCompatibilityCall

SpecOverlap == OverlapInit /\ [][OverlapNext]_vars

(***************************************************************************)
(* _is_disabled as a pure function of a name and a list of patterns.       *)
(***************************************************************************)
PatternLists == UNION {[1..n -> DisabledPatterns] : n \in 0..MaxPatterns}

DisabledInit ==
    /\ dname \in DisabledNames
    /\ disabled \in PatternLists
    /\ is_disabled = FALSE
    /\ pc = "call"
    /\ spec1 = EmptySpec
    /\ spec2 = EmptySpec
    /\ deps = EmptyMap
    /\ singletonPackages = {}
    /\ overlap = "pending"
    /\ errors = << >>
    /\ HandlerIdle

IsDisabledCall ==
    /\ pc = "call"
    /\ is_disabled' = IsDisabled(dname, disabled)
    /\ pc' = "returned"
    /\ UNCHANGED <<spec1, spec2, deps, singletonPackages, overlap, errors,
                   dname, disabled, hvars>>

SpecDisabled == DisabledInit /\ [][IsDisabledCall]_vars

(***************************************************************************)
(* The application directory and one handler session.                      *)
(***************************************************************************)
\* The content hashes a source directory can have.
Shas == {1, 2}

\* The manifest an earlier build left in static/package.json: built from
\* the published packages A and B, by the current core or by an older one
\* that pinned bar differently.
PriorCatalog == {"A", "B"}

PriorCoreData(version) ==
    IF version = CoreVersion THEN CoreData
    ELSE [CoreData EXCEPT !.jupyterlab.version = version,
                          !.dependencies["bar"] = Caret(<<0, 1, 0>>)]

PriorManifest(version) ==
    LET inf == GetAppInfo({}, {Tgz(n, 0) : n \in PriorCatalog}, EmptyConfig,
                          EmptyPageConfig, [s \in {"srcB", "srcL"} |-> 1], {})
    IN  PackageTemplateOn(PriorCoreData(version), inf, TRUE).data

\* The disabledExtensions lists of the page configs of the model.
DisabledInPage == {<< >>, <<"core-ext">>, <<"core">>}

PureIdle ==
    /\ spec1 = EmptySpec
    /\ spec2 = EmptySpec
    /\ deps = EmptyMap
    /\ singletonPackages = {}
    /\ overlap = "pending"
    /\ errors = << >>
    /\ pc = "handler"
    /\ DisabledIdle

\* Application directories that hold published extensions only, in the
\* system and the application directory.
CatalogInit ==
    /\ sys_exts \in {{}, {Tgz("A", 0)}}
    /\ \E installed \in SUBSET ExtensionNames :
            app_exts = {Tgz(n, 0) : n \in installed}
    /\ linked_tgz = {}
    /\ sources = [s \in {"srcB", "srcL"} |-> 1]
    /\ \E uninstalled \in {<< >>, <<"core-ext">>, <<"core-mime">>} :
            build_config = [EmptyConfig EXCEPT !.uninstalled_core_extensions = uninstalled]
    /\ page_config \in {[disabledExtensions |-> d] : d \in DisabledInPage}
    /\ static \in {NoStatic} \cup
            {[exists |-> TRUE, data |-> PriorManifest(v)] : v \in {CoreVersion, OldVersion}}

\* Application directories with a local extension B and a linked package L:
\* the source may be missing, unchanged or changed since it was packed with
\* content hash 1.
SourcesInit ==
    /\ sys_exts = {}
    /\ \E localB \in BOOLEAN, linkedL \in BOOLEAN,
          shaB \in {0} \cup Shas, shaL \in {0} \cup Shas :
            /\ localB \/ linkedL
            /\ ~localB => shaB = 1
            /\ ~linkedL => shaL = 1
            /\ \E others \in SUBSET {"E"} :
                app_exts = {Tgz("B", IF localB THEN 1 ELSE 0)}
                                \cup {Tgz(n, 0) : n \in others}
            /\ sources = [s \in {"srcB", "srcL"} |-> IF s = "srcB" THEN shaB ELSE shaL]
            /\ \E uninstalled \in {<< >>, <<"core-ext">>} :
                build_config =
                    [uninstalled_core_extensions |-> uninstalled,
                     local_extensions |-> IF localB THEN ("B" :> "srcB") ELSE EmptyMap,
                     linked_packages |-> IF linkedL THEN ("L" :> "srcL") ELSE EmptyMap]
    /\ linked_tgz \in {{}, {Tgz("L", 1)}}
    /\ page_config = EmptyPageConfig
    /\ static \in {NoStatic, [exists |-> TRUE, data |-> PriorManifest(CoreVersion)]}

Init ==
    /\ PureIdle
    /\ CatalogInit \/ SourcesInit
    /\ info = NoHandler
    /\ result = NoResult
    /\ warnings = {}
    /\ extracted = {}
    /\ built = FALSE

\* _AppHandler.__init__ (commands.py:256-263): self.info = _get_app_info(),
\* which prunes the dead entries of the build config and removes the
\* orphaned linked tarballs.
NewHandler ==
    /\ info' = GetAppInfo(sys_exts, app_exts, build_config, page_config, sources,
                          linked_tgz)
    /\ build_config' = PrunedConfig(build_config, sources)
    /\ linked_tgz' = linked_tgz \ Orphans(build_config, sources, linked_tgz)
    /\ warnings' =
            {[kind |-> "dead", name |-> n, errors |-> << >>] :
                n \in DeadNames(build_config, "local_extensions", sources)
                        \cup DeadNames(build_config, "linked_packages", sources)}
            \cup {[kind |-> "orphan", name |-> f.name, errors |-> << >>] :
                    f \in Orphans(build_config, sources, linked_tgz)}
    /\ result' = [op |-> "init", arg |-> FALSE, name |-> "", status |-> "ok",
                  value |-> AppInfoSteps]
    /\ built' = built
    /\ UNCHANGED <<ovars, sys_exts, app_exts, page_config, sources, static, extracted>>

\* _get_package_template(silent) on the handler.
TemplateReturn(tpl, silent) ==
    /\ info' = [info EXCEPT !.core_data = tpl.data]
    /\ result' = [op |-> "template", arg |-> silent, name |-> "",
                  status |-> IF tpl.raised THEN "raised" ELSE "ok",
                  value |-> IF tpl.raised THEN << >> ELSE tpl.data]
    /\ warnings' = tpl.warnings

GetPackageTemplate(silent) ==
    /\ info.exists
    /\ TemplateReturn(PackageTemplate(info, silent), silent)
    /\ UNCHANGED <<ovars, sys_exts, app_exts, linked_tgz, build_config, page_config,
                   sources, static, extracted, built>>

\* build (commands.py:305-322) with its default arguments: _populate_staging,
\* then the package manager and the bundler, which leave the staged
\* package.json in static/.
BuildReturn(st) ==
    /\ info' = st.info
    /\ app_exts' = st.app
    /\ linked_tgz' = st.linked
    /\ static' = IF st.raised THEN static ELSE [exists |-> TRUE, data |-> st.data]
    /\ built' = ~st.raised
    /\ result' = [op |-> "build", arg |-> FALSE, name |-> "",
                  status |-> IF st.raised THEN "raised" ELSE "ok",
                  value |-> << >>]
    /\ warnings' = st.warnings

Build ==
    /\ info.exists
    /\ BuildReturn(PopulateStaging(info, app_exts, sources))
    /\ UNCHANGED <<ovars, sys_exts, build_config, page_config, sources, extracted>>

\* build_check(fast) on the handler.
BuildCheckReturn(r, fast) ==
    /\ extracted' = r.extracted
    /\ result' = [op |-> "check", arg |-> fast, name |-> "",
                  status |-> IF r.raised THEN "raised" ELSE "ok",
                  value |-> IF r.raised THEN << >> ELSE r.messages]
    /\ warnings' = r.warnings
    /\ info' = [info EXCEPT !.core_data = r.data]

BuildCheck(fast) ==
    /\ info.exists
    /\ IF ~static.exists
       THEN \* Check for no application.
            /\ extracted' = {}
            /\ result' = [op |-> "check", arg |-> fast, name |-> "", status |-> "ok",
                          value |-> <<Msg("nobuild", "")>>]
            /\ warnings' = {}
            /\ info' = info
       ELSE BuildCheckReturn(
                BuildCheckBody(info, static.data, app_exts, linked_tgz, sources, fast),
                fast)
    /\ UNCHANGED <<ovars, sys_exts, app_exts, linked_tgz, build_config, page_config,
                   sources, static, built>>

\* install_extension(extension) on the handler.
InstallReturn(r, extension) ==
    /\ app_exts' = r.app
    /\ build_config' = r.config
    /\ built' = (built /\ r.app = app_exts /\ r.config = build_config)
    /\ result' = [op |-> "install", arg |-> FALSE, name |-> extension,
                  status |-> IF r.raised THEN "raised" ELSE "ok",
                  value |-> << >>]
    /\ warnings' = {}

\* The extensions install_extension is asked for: core extensions, a
\* published package and a source directory.
InstallInputs == {"core-ext", "core-mime", "E", "srcB"}

InstallExtension(extension) ==
    /\ info.exists
    /\ InstallReturn(
            InstallExtensionBody(info, extension, app_exts, build_config, sources),
            extension)
    /\ UNCHANGED <<ovars, sys_exts, linked_tgz, page_config, sources, static, info,
                   extracted>>

\* uninstall_extension(name) on the handler.
UninstallReturn(r, name) ==
    /\ app_exts' = r.app
    /\ sys_exts' = r.sys
    /\ build_config' = r.config
    /\ built' = (built /\ r.app = app_exts /\ r.sys = sys_exts
                    /\ r.config = build_config)
    /\ result' = [op |-> "uninstall", arg |-> FALSE, name |-> name,
                  status |-> IF r.raised THEN "raised" ELSE "ok",
                  value |-> <<r.value>>]
    /\ warnings' = IF r.value = "False"
                   THEN {[kind |-> "missing", name |-> name, errors |-> << >>]}
                   ELSE {}

UninstallInputs == {"core-ext", "core-mime", "B"}

UninstallExtension(name) ==
    /\ info.exists
    /\ UninstallReturn(
            UninstallExtensionBody(info, name, app_exts, sys_exts, build_config),
            name)
    /\ UNCHANGED <<ovars, linked_tgz, page_config, sources, static, info, extracted>>

\* list_extensions (commands.py:341-383): the listing, then
\* build_check(fast=True).
ListReturn(r, listed) ==
    /\ extracted' = r.extracted
    /\ result' = [op |-> "list", arg |-> TRUE, name |-> "",
                  status |-> IF r.raised THEN "raised" ELSE "ok",
                  value |-> IF r.raised THEN << >> ELSE r.messages]
    /\ warnings' = listed \cup r.warnings
    /\ info' = [info EXCEPT !.core_data = r.data]

ListExtensions ==
    /\ info.exists
    /\ IF ~static.exists
       THEN /\ extracted' = {}
            /\ result' = [op |-> "list", arg |-> TRUE, name |-> "", status |-> "ok",
                          value |-> <<Msg("nobuild", "")>>]
            /\ warnings' = ListWarnings(info)
            /\ info' = info
       ELSE ListReturn(
                BuildCheckBody(info, static.data, app_exts, linked_tgz, sources, TRUE),
                ListWarnings(info))
    /\ UNCHANGED <<ovars, sys_exts, app_exts, linked_tgz, build_config, page_config,
                   sources, static, built>>

Next ==
    \/ NewHandler
    \/ \E silent \in BOOLEAN : GetPackageTemplate(silent)
    \/ Build
    \/ \E fast \in BOOLEAN : BuildCheck(fast)

Spec == Init /\ [][Next]_vars

(***************************************************************************)
(* Installing, uninstalling and listing extensions on application          *)
(* directories with a system extension A, a local extension B whose source *)
(* may have changed, and an incompatible extension E.                      *)
(***************************************************************************)
InstallInit ==
    /\ PureIdle
    /\ sys_exts \in {{}, {Tgz("A", 0)}}
    /\ \E localB \in BOOLEAN, others \in SUBSET {"E"} :
            /\ app_exts = (IF localB THEN {Tgz("B", 1)} ELSE {})
                                \cup {Tgz(n, 0) : n \in others}
            /\ \E uninstalled \in {<< >>, <<"core-ext">>} :
                    build_config =
                        [uninstalled_core_extensions |-> uninstalled,
                         local_extensions |-> IF localB THEN ("B" :> "srcB") ELSE EmptyMap,
                         linked_packages |-> EmptyMap]
    /\ \E shaB \in Shas : sources = [s \in {"srcB", "srcL"} |-> IF s = "srcB" THEN shaB ELSE 1]
    /\ linked_tgz = {}
    /\ page_config = EmptyPageConfig
    /\ static \in {NoStatic, [exists |-> TRUE, data |-> PriorManifest(CoreVersion)]}
    /\ info = NoHandler
    /\ result = NoResult
    /\ warnings = {}
    /\ extracted = {}
    /\ built = FALSE

InstallNext ==
    \/ NewHandler
    \/ \E extension \in InstallInputs : InstallExtension(extension)
    \/ \E name \in UninstallInputs : UninstallExtension(name)
    \/ ListExtensions
    \/ BuildCheck(FALSE)

SpecInstall == InstallInit /\ [][InstallNext]_vars

(***************************************************************************)
(* toggle_extension (commands.py:546-555): enable_extension calls it with  *)
(* value False and disable_extension with value True (commands.py:201-212).*)
(***************************************************************************)
ToggleBodyNoRemove(config, extension, value) ==
    IF value /\ ~InList(config.disabledExtensions, extension)
    THEN [config EXCEPT !.disabledExtensions = Append(@, extension)]
    ELSE config

\* The page config toggle_extension writes.
ToggleBody(config, extension, value) ==
    IF value /\ ~InList(config.disabledExtensions, extension)
    THEN [config EXCEPT !.disabledExtensions = Append(@, extension)]
    ELSE IF ~value /\ InList(config.disabledExtensions, extension)
    THEN [config EXCEPT !.disabledExtensions = ListRemove(@, extension)]
    ELSE config

\* The names and patterns that are enabled and disabled.
ToggleInputs == {"A", "core", "core-ext"}

ToggleExtension(extension, value) ==
    /\ info.exists
    /\ page_config' = ToggleBody(page_config, extension, value)
    /\ result' = [op |-> "toggle", arg |-> value, name |-> extension,
                  status |-> "ok", value |-> << >>]
    /\ warnings' = {}
    /\ UNCHANGED <<ovars, sys_exts, app_exts, linked_tgz, build_config, sources,
                   static, info, extracted, built>>

\* An application directory without extensions whose page config has a
\* disabled list without duplicates.
ToggleInit ==
    /\ PureIdle
    /\ sys_exts = {}
    /\ app_exts = {}
    /\ linked_tgz = {}
    /\ build_config = EmptyConfig
    /\ page_config \in {[disabledExtensions |-> d] : d \in DisabledInPage}
    /\ sources = [s \in {"srcB", "srcL"} |-> 1]
    /\ static = NoStatic
    /\ info = NoHandler
    /\ result = NoResult
    /\ warnings = {}
    /\ extracted = {}
    /\ built = FALSE

ToggleNext ==
    \/ NewHandler
    \/ \E extension \in ToggleInputs, value \in BOOLEAN :
            ToggleExtension(extension, value)

SpecToggle == ToggleInit /\ [][ToggleNext]_vars

(***************************************************************************)
(* Properties of _test_overlap and _validate_compatibility, checked under  *)
(* SpecOverlap.                                                            *)
(***************************************************************************)
\* Some version satisfies both range expressions.
CommonVersion(s1, s2) ==
    \E v \in Versions : Satisfies(v, s1) /\ Satisfies(v, s2)

LowerBoundOnly(s) == s.kind \in {"gt", "gte"}

UpperBoundOnly(s) == s.kind \in {"lt", "lte"}

\* The conflicts recorded for package p.
ErrorsFor(p) == {i \in 1..Len(errors) : errors[i][1] = p}

\* C1: overlap is symmetric in outcome: overlap(r1, r2) and overlap(r2, r1)
\* give the same result among true / false / indeterminate.
C1_OverlapSymmetric ==
    pc # "start" => overlap = TestOverlap(spec2, spec1)

\* C2: for ranges that are an exact pin or a caret-style half-open interval,
\* overlap(host, ext) is true exactly when the two ranges admit a common
\* version and false otherwise.
C2_OverlapIffCommonVersion ==
    (pc # "start" /\ spec1.kind \in {"pin", "caret"} /\ spec2.kind \in {"pin", "caret"})
        => overlap = PyBool(CommonVersion(spec1, spec2))

\* C3 as stated: a lower-bound-only range on either side makes overlap
\* indeterminate, and the resolver records no conflict for that dependency.
C3_LowerBoundOnlyIndeterminate ==
    (pc # "start" /\ (LowerBoundOnly(spec1) \/ LowerBoundOnly(spec2)))
        => /\ overlap = None
           /\ pc = "validated" => ErrorsFor("foo") = {}

\* C3 amended: an upper-bound-only range ("<v" or "<=v") on either side makes
\* overlap indeterminate, and the resolver records no conflict for that
\* dependency.
C3_UpperBoundOnlyIndeterminate ==
    (pc # "start" /\ (UpperBoundOnly(spec1) \/ UpperBoundOnly(spec2)))
        => /\ overlap = None
           /\ pc = "validated" => ErrorsFor("foo") = {}

\* An upper-bound-only host range against a pin above it, on a singleton:
\* the ranges share no version and no conflict is recorded.
C3_Witness ==
    /\ pc = "validated"
    /\ spec1.kind = "lt" /\ spec2.kind = "pin"
    /\ ~CommonVersion(spec1, spec2)
    /\ "foo" \in singletonPackages
    /\ overlap = None
    /\ errors = << >>

\* C4: _validate_compatibility returns exactly one conflict
\* (pkg, hostRange, extRange) for a dependency iff the package is a singleton
\* and overlap(core pin, extension range) is false; non-singletons, and
\* singletons whose overlap is true or indeterminate (either range empty, or
\* either first comparator starting with "<"), produce no conflict.
C4_ConflictIffSingletonNoOverlap ==
    pc = "validated" =>
        /\ IF "foo" \in singletonPackages /\ overlap = "False"
           THEN /\ Cardinality(ErrorsFor("foo")) = 1
                /\ \E i \in ErrorsFor("foo") : errors[i] = <<"foo", spec1, spec2>>
           ELSE ErrorsFor("foo") = {}
        /\ IF "bar" \in DOMAIN deps /\ "bar" \in singletonPackages
           THEN /\ Cardinality(ErrorsFor("bar")) = 1
                /\ \E i \in ErrorsFor("bar") : errors[i] = <<"bar", BarPin, BarDep>>
           ELSE ErrorsFor("bar") = {}
        /\ Len(errors) = Cardinality(ErrorsFor("foo")) + Cardinality(ErrorsFor("bar"))
        /\ ( \/ spec1.kind \in {"empty", "lt", "lte"}
             \/ spec2.kind \in {"empty", "lt", "lte"} ) => ErrorsFor("foo") = {}

\* One conflict recorded for the singleton foo while the non-singleton
\* dependency bar, whose ranges are disjoint, is passed over.
C4_Witness ==
    /\ pc = "validated"
    /\ Len(errors) = 1
    /\ errors[1][1] = "foo"
    /\ "bar" \in DOMAIN deps
    /\ "bar" \notin singletonPackages

(***************************************************************************)
(* Properties of _get_package_template, build and build_check, checked     *)
(* under Spec.                                                             *)
(***************************************************************************)
\* Catalog entry n requires a range of a singleton package that does not
\* overlap the core pin.
HasConflict(n) ==
    \E pkg \in DOMAIN info.extensions[n].dependencies :
        /\ pkg \in CoreData.jupyterlab.singletonPackages
        /\ TestOverlap(CoreData.dependencies[pkg],
                       info.extensions[n].dependencies[pkg]) = "False"

\* The entry points catalog entry n declares are registered in data.
Registered(n, data) ==
    LET jlab_data == info.extensions[n].jupyterlab
    IN  /\ n \in DOMAIN data.dependencies
        /\ jlab_data.extension # "False" => n \in DOMAIN data.jupyterlab.extensions
        /\ jlab_data.mimeExtension # "False" => n \in DOMAIN data.jupyterlab.mimeExtensions

Absent(n, data) ==
    /\ n \notin DOMAIN data.dependencies
    /\ n \notin DOMAIN data.jupyterlab.extensions
    /\ n \notin DOMAIN data.jupyterlab.mimeExtensions

WarnedAbout(n) == \E w \in warnings : w.kind = "incompatible" /\ w.name = n

\* C5: _get_package_template completes without raising, leaves every catalog
\* entry with a compatibility conflict out of dependencies, extensions and
\* mimeExtensions, includes every entry without conflicts, and warns about
\* each excluded entry iff silent is false.
C5_ConflictsExcludedAndCompletes ==
    result.op = "template" =>
        /\ result.status = "ok"
        /\ \A n \in DOMAIN info.extensions :
            /\ HasConflict(n) => Absent(n, result.value)
            /\ ~HasConflict(n) => Registered(n, result.value)
            /\ WarnedAbout(n) <=> (HasConflict(n) /\ ~result.arg)

\* C6: build_check against the snapshot that build produced from the same
\* unchanged state returns an empty reason list, in fast and non-fast mode.
C6_CheckAfterBuildIsEmpty ==
    (built /\ result.op = "check") =>
        (result.status = "ok" /\ result.value = << >>)

\* C7: when the version recorded in the snapshot differs from the current
\* core version, build_check returns exactly one reason, the version
\* mismatch.
C7_VersionSkewIsSoleReason ==
    (result.op = "check" /\ static.exists
        /\ static.data.jupyterlab.version # info.version)
        => /\ result.status = "ok"
           /\ Len(result.value) = 1
           /\ result.value[1].kind = "version"

\* C8: _get_package_template does not mutate its inputs: the core manifest
\* template of the session snapshot and the catalog are after the call what
\* they were before it.
C8_TemplateLeavesInputs ==
    [][result'.op = "template" =>
        (info'.core_data = info.core_data /\ info'.extensions = info.extensions)]_vars

\* C9: two consecutive calls of _get_package_template on the same handler
\* both complete and return equal manifests.
C9_ConsecutiveTemplatesEqual ==
    [][(result.op = "template" /\ result.status = "ok" /\ result'.op = "template")
        => (result'.status = "ok" /\ result'.value = result.value)]_vars

\* The snapshot's extensions are those of the current resolution but for B,
\* which only the snapshot has, and C, which only the current resolution
\* has; A is in both, and nothing else differs.
C10_Case ==
    /\ result.op = "check" /\ result.status = "ok" /\ static.exists
    /\ LET old == static.data
           new == info.core_data
       IN  /\ (DOMAIN old.jupyterlab.extensions) \ (DOMAIN new.jupyterlab.extensions) = {"B"}
           /\ (DOMAIN new.jupyterlab.extensions) \ (DOMAIN old.jupyterlab.extensions) = {"C"}
           /\ "A" \in DOMAIN old.jupyterlab.extensions \cap DOMAIN new.jupyterlab.extensions
           /\ DOMAIN old.jupyterlab.mimeExtensions = DOMAIN new.jupyterlab.mimeExtensions
           /\ \A pkg \in DOMAIN old.dependencies \cap DOMAIN new.dependencies :
                old.dependencies[pkg] = new.dependencies[pkg]
           /\ info.local_extensions = EmptyMap
           /\ info.linked_packages = EmptyMap

\* C10 as stated: build_check returns ["B needs to be removed", "C needs to
\* be included"], the removal reason first.
C10_RemovalBeforeInclusion ==
    C10_Case => result.value = <<Msg("remove", "B"), Msg("include", "C")>>

\* C10 amended: build_check returns ["C needs to be included", "B needs to
\* be removed"], the inclusion reason first.
C10_InclusionBeforeRemoval ==
    C10_Case => result.value = <<Msg("include", "C"), Msg("remove", "B")>>

\* A check of a snapshot with extensions A and B against a catalog with A
\* and C.
C10_Witness ==
    /\ C10_Case
    /\ Len(result.value) = 2

(***************************************************************************)
(* Properties of _is_disabled, checked under SpecDisabled.                 *)
(***************************************************************************)
IsPrefix(p, t) == Len(p) <= Len(t) /\ SubSeq(t, 1, Len(p)) = p

\* The pattern has no regular expression operator.
Literal(pattern) ==
    \A i \in 1..Len(Spelling(pattern)) : Spelling(pattern)[i] \notin {".", "*"}

\* C19: _is_disabled(name, patterns) is true iff some pattern equals the name
\* or, as a regular expression, matches at the beginning of the name; a
\* literal pattern matches exactly the names that start with it, and an
\* empty list disables nothing.
C19_DisabledIffExactOrPrefixMatch ==
    pc = "returned" =>
        /\ is_disabled <=>
                \E i \in 1..Len(disabled) :
                    disabled[i] = dname \/ ReMatch(disabled[i], dname)
        /\ \A i \in 1..Len(disabled) :
                Literal(disabled[i]) =>
                    /\ ReMatch(disabled[i], dname)
                            <=> IsPrefix(Spelling(disabled[i]), Spelling(dname))
                    /\ IsPrefix(Spelling(disabled[i]), Spelling(dname)) => is_disabled
        /\ disabled = << >> => ~is_disabled

\* A literal pattern that is a proper prefix of the name disables it.
C19_Witness ==
    /\ pc = "returned"
    /\ dname = "core-ext"
    /\ disabled = <<"ext", "core">>
    /\ is_disabled

(***************************************************************************)
(* Properties of build_check, checked under Spec.                          *)
(***************************************************************************)
\* The number of reasons of the given kind about n in msgs.
CountOf(msgs, kind, n) ==
    Cardinality({i \in 1..Len(msgs) : msgs[i].kind = kind /\ msgs[i].name = n})

AllNames == {Ordered[i] : i \in 1..Len(Ordered)} \cup {"L"}

\* build_check returned its reasons for a snapshot of the current version.
CheckedSameVersion ==
    /\ result.op = "check"
    /\ result.status = "ok"
    /\ static.exists
    /\ static.data.jupyterlab.version = info.version

\* The extension kinds in which n is in manifest a and not in manifest b.
KindsOnlyIn(n, a, b) ==
    {t \in {"extensions", "mimeExtensions"} :
        n \in DOMAIN a.jupyterlab[t] /\ n \notin DOMAIN b.jupyterlab[t]}

\* C11: when the versions match, build_check emits for each extension kind
\* one "needs to be included" for every name only in the current manifest,
\* one "needs to be removed" for every name only in the snapshot, none for
\* a name in both, and these reasons precede the dependency and content
\* reasons.
C11_ExtensionReasonsPerKind ==
    CheckedSameVersion =>
        /\ \A n \in AllNames :
            /\ CountOf(result.value, "include", n)
                    = Cardinality(KindsOnlyIn(n, info.core_data, static.data))
            /\ CountOf(result.value, "remove", n)
                    = Cardinality(KindsOnlyIn(n, static.data, info.core_data))
        /\ \A i, j \in 1..Len(result.value) :
                (i < j /\ result.value[i].kind \in {"changed", "content"})
                    => result.value[j].kind \notin {"include", "remove"}

\* A is removed as an extension and as a mime extension and C is included.
C11_Witness ==
    /\ CheckedSameVersion
    /\ CountOf(result.value, "remove", "A") = 2
    /\ CountOf(result.value, "include", "C") = 1

\* The pin of pkg is in the snapshot and in the current manifest, differs,
\* and pkg is neither a local extension nor a linked package.
PinChanged(pkg) ==
    /\ pkg \in DOMAIN static.data.dependencies
    /\ pkg \in DOMAIN info.core_data.dependencies
    /\ pkg \notin DOMAIN info.local_extensions
    /\ pkg \notin DOMAIN info.linked_packages
    /\ static.data.dependencies[pkg] # info.core_data.dependencies[pkg]

\* C12: build_check emits "<pkg> changed from <old> to <new>" exactly for
\* the packages pinned in both the snapshot and the current manifest that
\* are neither local nor linked and whose pins differ.
C12_ChangedIffPinDiffers ==
    CheckedSameVersion =>
        \A pkg \in AllNames :
            /\ CountOf(result.value, "changed", pkg) = IF PinChanged(pkg) THEN 1 ELSE 0
            /\ \A i \in 1..Len(result.value) :
                    (result.value[i].kind = "changed" /\ result.value[i].name = pkg)
                        => /\ result.value[i].old = static.data.dependencies[pkg]
                           /\ result.value[i].new = info.core_data.dependencies[pkg]

\* A dependency reason is returned, for a package that is installed in
\* another directory than in the snapshot.
C12_Witness ==
    /\ CheckedSameVersion
    /\ \E pkg \in AllNames : PinChanged(pkg) /\ CountOf(result.value, "changed", pkg) = 1

\* C13: in fast mode build_check packs no source and emits no "content
\* changed" reason; otherwise it emits "<name> content changed" for exactly
\* the local extensions and linked packages whose source, packed again, is
\* not among the packaged copies on disk, which includes there being none.
C13_ContentReasons ==
    (result.op = "check" /\ static.exists) =>
        /\ result.arg =>
            /\ extracted = {}
            /\ \A i \in 1..Len(result.value) : result.value[i].kind # "content"
        /\ (~result.arg /\ CheckedSameVersion) =>
            /\ extracted = DOMAIN info.local_extensions \cup DOMAIN info.linked_packages
            /\ \A n \in DOMAIN info.local_extensions :
                    CountOf(result.value, "content", n)
                        = IF Packed(n, sources[info.local_extensions[n]]) \in app_exts
                          THEN 0 ELSE 1
            /\ \A n \in DOMAIN info.linked_packages :
                    CountOf(result.value, "content", n)
                        = IF Packed(n, sources[info.linked_packages[n].source])
                                \in linked_tgz
                          THEN 0 ELSE 1
            /\ \A n \in AllNames :
                    CountOf(result.value, "content", n) > 0
                        => n \in DOMAIN info.local_extensions
                                \cup DOMAIN info.linked_packages

\* A linked package without a packaged copy and a local extension whose
\* source changed since it was packed are both reported.
C13_Witness ==
    /\ CheckedSameVersion
    /\ ~result.arg
    /\ linked_tgz = {}
    /\ CountOf(result.value, "content", "L") = 1
    /\ Tgz("B", 1) \in app_exts
    /\ CountOf(result.value, "content", "B") = 1

(***************************************************************************)
(* Properties of the session snapshot, checked under Spec.                 *)
(***************************************************************************)
IndexOf(seq, x) == CHOOSE i \in 1..Len(seq) : seq[i] = x

\* No entry of the map names a source path that does not exist.
NoDeadSource(m) == \A n \in DOMAIN m : sources[m[n]] # 0

\* C14: after _get_app_info neither the local extension and linked package
\* maps of the snapshot nor the persisted build config name a missing source
\* path, and the pruning and rewrite come before the catalog scan and the
\* is_local tagging.
C14_DeadEntriesPrunedFirst ==
    result.op = "init" =>
        /\ NoDeadSource(info.local_extensions)
        /\ NoDeadSource([n \in DOMAIN info.linked_packages |->
                            info.linked_packages[n].source])
        /\ NoDeadSource(build_config.local_extensions)
        /\ NoDeadSource(build_config.linked_packages)
        /\ \A prune \in {"local_extensions", "linked_packages"} :
                \A other \in {"extensions", "is_local"} :
                    IndexOf(result.value, prune) < IndexOf(result.value, other)
\* The core extension n has the entries the core manifest declares for it.
CoreEntriesKept(n, data) ==
    /\ n \in DOMAIN data.dependencies
    /\ n \in DOMAIN CoreData.jupyterlab.extensions
            => n \in DOMAIN data.jupyterlab.extensions
    /\ n \in DOMAIN CoreData.jupyterlab.mimeExtensions
            => n \in DOMAIN data.jupyterlab.mimeExtensions

\* C15: _get_package_template completes, its manifest has none of the names
\* of the uninstalled core list in extensions, mimeExtensions or
\* dependencies, and the other core extensions keep their entries.
C15_UninstalledCoreRemoved ==
    result.op = "template" =>
        /\ result.status = "ok"
        /\ \A i \in 1..Len(info.core_extensions) :
            IF InList(info.uninstalled_core, info.core_extensions[i])
            THEN Absent(info.core_extensions[i], result.value)
            ELSE CoreEntriesKept(info.core_extensions[i], result.value)
\* C16: a core extension is in disabled_core iff _is_disabled of its name
\* and the disabledExtensions list is true, so a pattern that matches a
\* prefix of the name puts it in disabled_core as an equal entry does.
C16_DisabledCoreIsDisabled ==
    info.exists =>
        \A i \in 1..Len(info.core_extensions) :
            InList(info.disabled_core, info.core_extensions[i])
                <=> IsDisabled(info.core_extensions[i], info.disabled)
NamesIn(files) == {f.name : f \in files}

\* C17: the merged catalog has one record for every name found in the
\* system or the application extensions directory, the application's record
\* when the name is found in both, and a record is tagged is_local iff its
\* name is a key of the local extensions map.
C17_CatalogMerge ==
    result.op = "init" =>
        /\ DOMAIN info.extensions = NamesIn(sys_exts) \cup NamesIn(app_exts)
        /\ \A n \in DOMAIN info.extensions :
            /\ IF n \in NamesIn(app_exts)
               THEN /\ info.extensions[n].location = "app"
                    /\ info.extensions[n].path.dir = "app"
                    /\ info.extensions[n].path.file \in app_exts
               ELSE /\ info.extensions[n].location = "sys"
                    /\ info.extensions[n].path.file \in sys_exts
            /\ info.extensions[n].is_local <=> n \in DOMAIN info.local_extensions

\* A is in both directories.
C17_Witness ==
    /\ result.op = "init"
    /\ "A" \in NamesIn(sys_exts) \cap NamesIn(app_exts)
    /\ info.extensions["A"].location = "app"

(***************************************************************************)
(* Properties of install_extension, uninstall_extension and                *)
(* list_extensions, checked under SpecInstall.                             *)
(***************************************************************************)
\* The package n requires a range of a singleton package that does not
\* overlap the core pin.
PackageConflicts(n) ==
    /\ n \in ExtensionNames
    /\ ValidateCompatibility(PackageData(n).dependencies, CoreData.dependencies,
                             CoreData.jupyterlab.singletonPackages) # << >>

\* install_extension of a package with a conflict raises and leaves the
\* extensions directory and the build config as they were.
ConflictingInstallRaises ==
    (result'.op = "install" /\ PackageConflicts(result'.name))
        => /\ result'.status = "raised"
           /\ app_exts' = app_exts
           /\ build_config' = build_config

\* list_extensions and build_check on a catalog with a conflicting entry
\* complete, and warn about the entry where they validate it.
ConflictOnlyWarns ==
    (result.op \in {"list", "check"}
        /\ \E n \in DOMAIN info.extensions : HasConflict(n))
        => /\ result.status = "ok"
           /\ \A n \in DOMAIN info.extensions :
                (HasConflict(n)
                    /\ (result.op = "list" \/ (static.exists /\ ~result.arg)))
                    => WarnedAbout(n)

\* C18: a direct install_extension of an extension with a compatibility
\* conflict raises and leaves the extensions directory and the build config
\* unchanged, while the same conflict met by list_extensions or build_check
\* only produces a warning and never aborts the operation.
C18_ConflictFatalOnlyOnInstall ==
    [][ConflictingInstallRaises]_vars /\ []ConflictOnlyWarns
NoDuplicates(list) ==
    \A i, j \in 1..Len(list) : list[i] = list[j] => i = j

CoreNames == {GetCoreExtensions[i] : i \in 1..Len(GetCoreExtensions)}

\* What an install_extension or uninstall_extension of a core extension
\* name does, and what changes the uninstalled core list.
CoreInstallStep ==
    /\ \A n \in CoreNames :
        /\ (result'.op = "uninstall" /\ result'.name = n)
                => /\ result'.status = "ok"
                   /\ InList(build_config'.uninstalled_core_extensions, n)
        /\ (result'.op = "install" /\ result'.name = n)
                => /\ result'.status = "ok"
                   /\ ~InList(build_config'.uninstalled_core_extensions, n)
        /\ (InList(build_config'.uninstalled_core_extensions, n)
                # InList(build_config.uninstalled_core_extensions, n))
                => /\ result'.op \in {"install", "uninstall"}
                   /\ result'.name = n
    /\ (result'.op \in {"install", "uninstall"} /\ result'.name \in CoreNames)
            => /\ build_config'.local_extensions = build_config.local_extensions
               /\ build_config'.linked_packages = build_config.linked_packages
               /\ sys_exts' = sys_exts
               /\ app_exts' = app_exts
               /\ linked_tgz' = linked_tgz

\* C20: through any sequence of uninstall_extension and install_extension
\* calls on core extension names the uninstalled core list has no
\* duplicates and holds a name iff the last of these calls on it was an
\* uninstall; the calls change no other key of the build config and remove
\* no file.
C20_UninstalledCoreList ==
    /\ []NoDuplicates(build_config.uninstalled_core_extensions)
    /\ [][CoreInstallStep]_vars

\* core-mime was uninstalled and core-ext, uninstalled before, installed
\* again.
C20_Witness ==
    /\ result.op = "install"
    /\ result.name = "core-ext"
    /\ build_config.uninstalled_core_extensions = <<"core-mime">>

(***************************************************************************)
(* Properties of toggle_extension, checked under SpecToggle.               *)
(***************************************************************************)
\* The entries of list that are also in other, in the order of list.
Remaining(list, other) == SelectSeq(list, LAMBDA e : InList(other, e))

\* What one toggle does to the disabled list, and what changes the list.
ToggleStep ==
    /\ \A e \in ToggleInputs :
        /\ (result'.op = "toggle" /\ result'.name = e /\ result'.arg)
                => InList(page_config'.disabledExtensions, e)
        /\ (result'.op = "toggle" /\ result'.name = e /\ ~result'.arg)
                => ~InList(page_config'.disabledExtensions, e)
        /\ (InList(page_config'.disabledExtensions, e)
                # InList(page_config.disabledExtensions, e))
                => (result'.op = "toggle" /\ result'.name = e)
    /\ Remaining(page_config.disabledExtensions, page_config'.disabledExtensions)
            = Remaining(page_config'.disabledExtensions, page_config.disabledExtensions)
    /\ (result.op = "toggle" /\ result' = result)
            => page_config' = page_config

\* C21: through any sequence of enable_extension and disable_extension
\* calls the disabled list has no duplicates and holds an entry iff the last
\* toggle of that string was a disable (or it was there from the start and
\* never enabled), the entries that remain keep their relative order, and
\* repeating a toggle leaves the list unchanged.
C21_DisabledList ==
    /\ []NoDuplicates(page_config.disabledExtensions)
    /\ [][ToggleStep]_vars

\* core and A were disabled after core-ext, and core enabled again.
C21_Witness ==
    /\ result.op = "toggle"
    /\ result.name = "core"
    /\ ~result.arg
    /\ page_config.disabledExtensions = <<"core-ext", "A">>

====
